---- MODULE Spec2Model ----
(***************************************************************************)
(* Model of scheduler.py: one run of the script is the pipeline            *)
(*   remove absentees -> integer codecs -> shift variables ->              *)
(*   constraints 1..4 -> objective -> solver.Solve -> verdict -> render.   *)
(* The CP-SAT solver is an external library; it is modelled by its         *)
(* contract: any assignment of the shift variables that satisfies every    *)
(* constraint of the model (OPTIMAL when it also maximises the objective), *)
(* INFEASIBLE when there is none, or UNKNOWN.                              *)
(***************************************************************************)
EXTENDS Integers, Sequences, FiniteSets, TLC

\* ------------------------------------------------------------------ bounds
MaxBlocks == 2          \* n_blocks ranges over 1..MaxBlocks
MaxSeed == 1            \* str hash seeds 0..MaxSeed of the interpreter

\* ------------------------------------------------------- names and rosters
\* A role name is a Python str, modelled as its sequence of characters.
Role(d) == <<"R", "o", "l", "e", " ", d>>
RoleA == <<"R", "o", "l", "e", "A">>
RoleB == <<"R", "o", "l", "e", "B">>

AllNames == <<"Alice", "Bob", "Carol", "Dan", "Eve">>

\* Contents of roles_employees.json the run may be started with: a dict
\* (insertion ordered) from role name to member list.
RosterStandard ==
  << [role |-> Role("1"), members |-> <<"Alice", "Bob", "Carol">>],
     [role |-> Role("2"), members |-> <<"Carol", "Dan">>],
     [role |-> Role("3"), members |-> <<"Eve">>],
     [role |-> Role("4"), members |-> <<>>],
     [role |-> Role("5"), members |-> <<>>],
     [role |-> Role("6"), members |-> <<>>],
     [role |-> Role("7"), members |-> <<>>],
     [role |-> Role("8"), members |-> <<>>],
     [role |-> Role("9"), members |-> <<"Dan">>] >>

\* The same kind of roster with the first two keys in the other order.
RosterReordered ==
  << [role |-> Role("2"), members |-> <<"Alice", "Bob">>],
     [role |-> Role("1"), members |-> <<"Bob", "Carol">>],
     [role |-> Role("3"), members |-> <<>>],
     [role |-> Role("4"), members |-> <<>>],
     [role |-> Role("5"), members |-> <<>>],
     [role |-> Role("6"), members |-> <<>>],
     [role |-> Role("7"), members |-> <<>>],
     [role |-> Role("8"), members |-> <<>>],
     [role |-> Role("9"), members |-> <<>>] >>

\* Scenario A/B roster of the specification.
RosterScenarioA ==
  << [role |-> RoleA, members |-> <<"Alice", "Bob">>],
     [role |-> RoleB, members |-> <<"Carol">>] >>

Rosters == {RosterStandard, RosterReordered, RosterScenarioA}

Range(s) == {s[i] : i \in DOMAIN s}
Max(a, b) == IF a >= b THEN a ELSE b

\* list(roles_employees.keys())
Keys(d) == [i \in 1..Len(d) |-> d[i].role]

\* employees = set(item for sublist in d.values() for item in sublist)
EmployeesOf(d) == UNION {Range(d[i].members) : i \in 1..Len(d)}

\* st.multiselect over list(employees): the selections tried.
AbsentChoices(d) == {{}, {d[1].members[1]}, Range(d[2].members)}

\* st.multiselect over list(roles_employees.keys()): the selections tried.
FixedChoices(d) ==
  {{}, {d[1].role}, {d[2].role}, {d[1].role, d[2].role}, {d[Len(d)].role}}

\* ------------------------------------------------------------------- state
VARIABLES
  roles_employees,        \* the roster loaded at process scope
  n_blocks,               \* st.number_input
  absent_colleagues,      \* st.multiselect (set of names)
  fixed_meetings,         \* one selection of role names per block
  hashSeed,               \* str hash salt of this interpreter
  run,                    \* 1: first run, 2: re-run on the same inputs
  prevShifts,             \* shift variables the previous run created
  prevConstraints,        \* constraints the previous run added
  pc,                     \* position of the run in main()
  without_absentee,       \* _roles_employees_without_absentee
  indices_employees,      \* _indices_employees: id -> name
  roles_idx,              \* _roles_employees: role index -> member ids
  shifts,                 \* keys (t, r, e) of the shifts dict
  constraints,            \* constraints added to the CpModel
  t_idx,                  \* loop position over fixed_meetings / timeslots
  calls,                  \* add_constraint calls that indexed _roles_employees
  status,                 \* solver.StatusName(status)
  solution,               \* value of each shift variable, when there is one
  valuesRead,             \* solver.Value was called
  message,                \* the st.write of the infeasible branch
  report,                 \* blocks written by the renderer
  exc                     \* uncaught exception that ended the run

vars == <<roles_employees, n_blocks, absent_colleagues, fixed_meetings,
          hashSeed, run, prevShifts, prevConstraints, pc, without_absentee,
          indices_employees, roles_idx, shifts, constraints, t_idx, calls,
          status, solution, valuesRead, message, report, exc>>

inputs == <<roles_employees, n_blocks, absent_colleagues, fixed_meetings>>
history == <<run, prevShifts, prevConstraints>>

Fresh ==
  /\ pc = "remove_absent"
  /\ without_absentee = <<>>
  /\ indices_employees = <<>>
  /\ roles_idx = <<>>
  /\ shifts = {}
  /\ constraints = {}
  /\ t_idx = 0
  /\ calls = {}
  /\ status = ""
  /\ solution = <<>>
  /\ valuesRead = FALSE
  /\ message = ""
  /\ report = <<>>
  /\ exc = ""

Init ==
  /\ roles_employees \in Rosters
  /\ n_blocks \in 1..MaxBlocks
  /\ absent_colleagues \in AbsentChoices(roles_employees)
  /\ fixed_meetings \in [1..n_blocks -> FixedChoices(roles_employees)]
  /\ hashSeed \in 0..MaxSeed
  /\ run = 1
  /\ prevShifts = {}
  /\ prevConstraints = {}
  /\ Fresh

\* ------------------------------------------------------- Roster Normalizer
\* lines 31-36
RemoveAbsent ==
  /\ pc = "remove_absent"
  /\ without_absentee' =
       IF Cardinality(absent_colleagues) > 0
       THEN [i \in 1..Len(roles_employees) |->
               [role |-> roles_employees[i].role,
                members |-> SelectSeq(roles_employees[i].members,
                                      LAMBDA x : x \notin absent_colleagues)]]
       ELSE roles_employees
  /\ pc' = "codecs"
  /\ UNCHANGED <<inputs, hashSeed, history, indices_employees, roles_idx,
                 shifts, constraints, t_idx, calls, status, solution,
                 valuesRead, message, report, exc>>

\* Iteration order of a set of str: it depends on the salted hashes, so it
\* is a function of the interpreter's seed (here: a rotation of the names).
SetOrder(S, seed) ==
  LET canon == SelectSeq(AllNames, LAMBDA x : x \in S)
      n == Len(canon)
  IN  [i \in 1..n |-> canon[((i - 1 + seed) % n) + 1]]

\* _revs_indices_employees = {v: k for k, v in _indices_employees.items()}
revs_indices_employees(ix, name) == CHOOSE k \in DOMAIN ix : ix[k] = name

\* lines 39-48
ConvertToNumbers ==
  /\ pc = "codecs"
  /\ LET order == SetOrder(EmployeesOf(without_absentee), hashSeed)
         ix == [k \in 0..(Len(order) - 1) |-> order[k + 1]]
     IN  /\ indices_employees' = ix
         /\ roles_idx' =
              [idx \in 0..(Len(without_absentee) - 1) |->
                 [j \in 1..Len(without_absentee[idx + 1].members) |->
                    revs_indices_employees(ix, without_absentee[idx + 1].members[j])]]
  /\ pc' = "shifts"
  /\ UNCHANGED <<inputs, hashSeed, history, without_absentee, shifts,
                 constraints, t_idx, calls, status, solution, valuesRead,
                 message, report, exc>>

\* ----------------------------------------------------------- Model Builder
timeslots == 0..(n_blocks - 1)

\* shifts[(t, r, e)] for e in _roles_employees[r]
RoleShifts(t, r) == {<<t, r, e>> : e \in Range(roles_idx[r])}

\* lines 51-55
CreateShifts ==
  /\ pc = "shifts"
  /\ shifts' = UNION {RoleShifts(t, r) : t \in timeslots, r \in DOMAIN roles_idx}
  /\ pc' = "constraint1"
  /\ UNCHANGED <<inputs, hashSeed, history, without_absentee,
                 indices_employees, roles_idx, constraints, t_idx, calls,
                 status, solution, valuesRead, message, report, exc>>

\* A constraint of the CpModel: its kind, the shift variables it sums, the
\* values it admits (InDomain, Eq) and the loop indices that created it.
Ct(kind, vs, vals, id) == [kind |-> kind, vars |-> vs, vals |-> vals, id |-> id]

\* faulty variant of EligibleRoles: only the first role is considered
EligibleRolesFirstOnly(e) ==
  {k \in DOMAIN roles_idx : e \in Range(roles_idx[k]) /\ k = 0}
\* line 61: [k for k, v in _roles_employees.items() if e in v]
EligibleRoles(e) == {k \in DOMAIN roles_idx : e \in Range(roles_idx[k])}

\* lines 59-61
Constraint1 ==
  /\ pc = "constraint1"
  /\ constraints' = constraints \cup
       {Ct("AtMostOne", {<<t, r, e>> : r \in EligibleRoles(e)}, {}, <<1, e, t>>) :
          e \in DOMAIN indices_employees, t \in timeslots}
  /\ pc' = "constraint2"
  /\ UNCHANGED <<inputs, hashSeed, history, without_absentee,
                 indices_employees, roles_idx, shifts, t_idx, calls, status,
                 solution, valuesRead, message, report, exc>>

\* faulty variant of CoverageApplies: the test of line 65 inverted
CoverageAppliesInverted(r) == r = 8
\* line 65: if r != 8  (Role 9 is skipped by rule 2)
CoverageApplies(r) == r # 8

\* lines 64-74
Constraint2 ==
  /\ pc = "constraint2"
  /\ constraints' = constraints \cup
       {Ct(IF Len(roles_idx[r]) > 1 THEN "SumGT0" ELSE "SumEQ0",
           UNION {RoleShifts(t, r) : t \in timeslots}, {}, <<2, r>>) :
          r \in {k \in DOMAIN roles_idx : CoverageApplies(k)}}
  /\ pc' = "constraint3"
  /\ UNCHANGED <<inputs, hashSeed, history, without_absentee,
                 indices_employees, roles_idx, shifts, t_idx, calls, status,
                 solution, valuesRead, message, report, exc>>

\* faulty variant of CohesionDomain: any number of attendees is admitted
CohesionDomainAnyCount(n_employees) == 0..n_employees
\* line 83: cp_model.Domain.FromValues([0, max(2, n_employees - 1), n_employees])
CohesionDomain(n_employees) == {0, Max(2, n_employees - 1), n_employees}

\* lines 77-83
Constraint3 ==
  /\ pc = "constraint3"
  /\ constraints' = constraints \cup
       {Ct("InDomain", RoleShifts(t, r), CohesionDomain(Len(roles_idx[r])),
           <<3, r, t>>) : r \in DOMAIN roles_idx, t \in timeslots}
  /\ pc' = "constraint4"
  /\ t_idx' = 0
  /\ UNCHANGED <<inputs, hashSeed, history, without_absentee,
                 indices_employees, roles_idx, shifts, calls, status,
                 solution, valuesRead, message, report, exc>>

\* int(r[-1]): the last character of the role name read as a decimal digit
Digits == <<"0", "1", "2", "3", "4", "5", "6", "7", "8", "9">>
IsDigit(c) == \E i \in 1..10 : Digits[i] = c
int(c) == (CHOOSE i \in 1..10 : Digits[i] = c) - 1
Last(name) == name[Len(name)]

\* The add_constraint calls of one pass of the loop of lines 90-94, in the
\* arguments they are made with; name is the role the call is made for.
Requests(r_list) ==
  {[name |-> nm, t |-> t_idx, r |-> int(Last(nm)), value |-> 1] :
     nm \in {x \in r_list : IsDigit(Last(x))}}
  \cup (IF Role("9") \notin r_list
        THEN {[name |-> Role("9"), t |-> t_idx, r |-> 9, value |-> 0]}
        ELSE {})

\* Exceptions the pass can end with: int() of a non-digit (ValueError),
\* _roles_employees[r-1] of a missing key (KeyError).
Raises(r_list) ==
  LET inList == (IF \E nm \in r_list : ~IsDigit(Last(nm))
                 THEN {"ValueError"} ELSE {})
                \cup
                (IF \E nm \in r_list : /\ IsDigit(Last(nm))
                                       /\ (int(Last(nm)) - 1) \notin DOMAIN roles_idx
                 THEN {"KeyError"} ELSE {})
  IN  IF inList # {} THEN inList
      ELSE IF Role("9") \notin r_list /\ 8 \notin DOMAIN roles_idx
           THEN {"KeyError"} ELSE {}

\* lines 86-88: model.Add(shifts[(t, r-1, e)] == value) for e in _roles_employees[r-1]
add_constraint(t, r, value) ==
  {Ct("Eq", {<<t, r - 1, e>>}, {value}, <<4, t, r - 1, e>>) :
     e \in Range(roles_idx[r - 1])}

\* lines 90-94, one block of fixed_meetings
FixedMeetings ==
  /\ pc = "constraint4"
  /\ t_idx < Len(fixed_meetings)
  /\ Raises(fixed_meetings[t_idx + 1]) = {}
  /\ LET reqs == Requests(fixed_meetings[t_idx + 1])
     IN  /\ constraints' = constraints \cup
               UNION {add_constraint(q.t, q.r, q.value) : q \in reqs}
         /\ calls' = calls \cup reqs
  /\ t_idx' = t_idx + 1
  /\ pc' = IF t_idx + 1 = Len(fixed_meetings) THEN "objective" ELSE pc
  /\ UNCHANGED <<inputs, hashSeed, history, without_absentee,
                 indices_employees, roles_idx, shifts, status, solution,
                 valuesRead, message, report, exc>>

\* lines 90-94 when int() or the dict lookup raises
FixedMeetingsRaise ==
  /\ pc = "constraint4"
  /\ t_idx < Len(fixed_meetings)
  /\ exc' \in Raises(fixed_meetings[t_idx + 1])
  /\ pc' = "crashed"
  /\ UNCHANGED <<inputs, hashSeed, history, without_absentee,
                 indices_employees, roles_idx, shifts, constraints, t_idx,
                 calls, status, solution, valuesRead, message, report>>

\* lines 103-109: one indicator per (t, r), tied to the role's shifts by
\* the two OnlyEnforceIf constraints
Objective ==
  /\ pc = "objective"
  /\ constraints' = constraints \cup
       {Ct("Indicator", RoleShifts(t, r), {}, <<5, r, t>>) :
          r \in DOMAIN roles_idx, t \in timeslots}
  /\ pc' = "solve"
  /\ UNCHANGED <<inputs, hashSeed, history, without_absentee,
                 indices_employees, roles_idx, shifts, t_idx, calls, status,
                 solution, valuesRead, message, report, exc>>

\* ------------------------------------------------------------ the solver
\* sum of the 0/1 values of a set of shift variables
Sum(vs, a) == Cardinality({k \in vs : a[k] = 1})

\* Does the assignment a satisfy constraint c?  The indicator of (t, r) is a
\* variable of its own that only occurs in its two OnlyEnforceIf constraints
\* (> 0 if set, == 0 if not), so one of its two values always satisfies them.
Holds(c, a) ==
  CASE c.kind = "AtMostOne" -> Sum(c.vars, a) <= 1
    [] c.kind = "SumGT0"    -> Sum(c.vars, a) > 0
    [] c.kind = "SumEQ0"    -> Sum(c.vars, a) = 0
    [] c.kind = "InDomain"  -> Sum(c.vars, a) \in c.vals
    [] c.kind = "Eq"        -> Sum(c.vars, a) \in c.vals
    [] c.kind = "Indicator" -> \E tmp \in {0, 1} :
                                  /\ tmp = 1 => Sum(c.vars, a) > 0
                                  /\ tmp = 0 => Sum(c.vars, a) = 0

\* Assignments of the shift variables of block t that satisfy the
\* constraints over that block alone.
BlockAssignments(t) ==
  LET keys == {k \in shifts : k[1] = t}
      local == {c \in constraints :
                  c.vars # {} /\ \A k \in c.vars : k[1] = t}
  IN  {b \in [keys -> {0, 1}] : \A c \in local : Holds(c, b)}

RECURSIVE Partial(_)
Partial(n) ==
  IF n = 0 THEN {<<>>}
  ELSE {p @@ b : p \in Partial(n - 1), b \in BlockAssignments(n - 1)}

\* Every assignment of the shift variables that satisfies all constraints.
Solutions == {a \in Partial(n_blocks) : \A c \in constraints : Holds(c, a)}

\* line 111, times 10: sum(total_shifts) - sum(total_roles) * 0.1
ObjectiveValue(a) ==
  10 * Sum(shifts, a)
    - Cardinality({c \in constraints : c.kind = "Indicator" /\ Sum(c.vars, a) > 0})

\* line 114: no assignment satisfies the model
SolveInfeasible ==
  /\ pc = "solve"
  /\ Solutions = {}
  /\ status' = "INFEASIBLE"
  /\ pc' = "verdict"
  /\ UNCHANGED <<inputs, hashSeed, history, without_absentee,
                 indices_employees, roles_idx, shifts, constraints, t_idx,
                 calls, solution, valuesRead, message, report, exc>>

\* line 114: the solver returns a satisfying assignment
SolveFound ==
  /\ pc = "solve"
  /\ \E sols \in {Solutions} :
       \E values \in {{ObjectiveValue(b) : b \in sols}} :
         \E a \in sols :
           /\ solution' = a
           /\ status' \in
                IF \A w \in values : w <= ObjectiveValue(a)
                THEN {"OPTIMAL", "FEASIBLE"} ELSE {"FEASIBLE"}
  /\ pc' = "verdict"
  /\ UNCHANGED <<inputs, hashSeed, history, without_absentee,
                 indices_employees, roles_idx, shifts, constraints, t_idx,
                 calls, valuesRead, message, report, exc>>

\* line 114: the search stops without a verdict
SolveUnknown ==
  /\ pc = "solve"
  /\ status' = "UNKNOWN"
  /\ pc' = "verdict"
  /\ UNCHANGED <<inputs, hashSeed, history, without_absentee,
                 indices_employees, roles_idx, shifts, constraints, t_idx,
                 calls, solution, valuesRead, message, report, exc>>

\* ------------------------------------------------------- Solution Renderer
\* lines 116-117
ReportInfeasible ==
  /\ pc = "verdict"
  /\ status = "INFEASIBLE"
  /\ message' = "cannot find a solution"
  /\ pc' = "done"
  /\ UNCHANGED <<inputs, hashSeed, history, without_absentee,
                 indices_employees, roles_idx, shifts, constraints, t_idx,
                 calls, status, solution, valuesRead, report, exc>>

\* line 118: every other status name takes the else branch
StartRender ==
  /\ pc = "verdict"
  /\ status # "INFEASIBLE"
  /\ t_idx' = 0
  /\ pc' = "render"
  /\ UNCHANGED <<inputs, hashSeed, history, without_absentee,
                 indices_employees, roles_idx, shifts, constraints, calls,
                 status, solution, valuesRead, message, report, exc>>

\* lines 124-127: the names of the members of role r whose shift is set
chosen_members(t, r) ==
  LET picked == SelectSeq(roles_idx[r], LAMBDA e : solution[<<t, r, e>>] = 1)
  IN  [j \in 1..Len(picked) |-> indices_employees[picked[j]]]

\* lines 120-131 for block t: header, one line per role with attendees, and
\* the employees left
BlockReport(t) ==
  LET rs == SelectSeq([i \in 1..Len(roles_employees) |-> i - 1],
                      LAMBDA r : Len(chosen_members(t, r)) > 0)
      lines == [j \in 1..Len(rs) |->
                  [r |-> rs[j],
                   role |-> Keys(roles_employees)[rs[j] + 1],
                   members |-> chosen_members(t, rs[j])]]
  IN  [header |-> t + 1,
       meetings |-> lines,
       left |-> Range(indices_employees)
                  \ UNION {Range(lines[j].members) : j \in 1..Len(lines)}]

HasSolution == status \in {"OPTIMAL", "FEASIBLE"}

\* lines 119-131, one block, when the solver holds a solution (or the model
\* has no variable to read)
RenderBlock ==
  /\ pc = "render"
  /\ t_idx < n_blocks
  /\ HasSolution \/ shifts = {}
  /\ report' = Append(report, BlockReport(t_idx))
  /\ valuesRead' = (valuesRead \/ shifts # {})
  /\ t_idx' = t_idx + 1
  /\ pc' = IF t_idx + 1 = n_blocks THEN "done" ELSE pc
  /\ UNCHANGED <<inputs, hashSeed, history, without_absentee,
                 indices_employees, roles_idx, shifts, constraints, calls,
                 status, solution, message, exc>>

\* line 126 when the solver holds no solution: the header of the first block
\* is written, then solver.Value raises
RenderRaise ==
  /\ pc = "render"
  /\ t_idx < n_blocks
  /\ ~HasSolution /\ shifts # {}
  /\ report' = Append(report, [header |-> t_idx + 1, meetings |-> <<>>, left |-> {}])
  /\ valuesRead' = TRUE
  /\ exc' = "RuntimeError"
  /\ pc' = "crashed"
  /\ UNCHANGED <<inputs, hashSeed, history, without_absentee,
                 indices_employees, roles_idx, shifts, constraints, t_idx,
                 calls, status, solution, message>>

\* ------------------------------------------------------------------ re-run
Terminal == pc \in {"done", "crashed"}

\* The script is run again on the same inputs by a fresh interpreter, whose
\* str hashes are salted anew.
Rerun ==
  /\ Terminal
  /\ run = 1
  /\ run' = 2
  /\ prevShifts' = shifts
  /\ prevConstraints' = constraints
  /\ hashSeed' \in 0..MaxSeed
  /\ pc' = "remove_absent"
  /\ without_absentee' = <<>>
  /\ indices_employees' = <<>>
  /\ roles_idx' = <<>>
  /\ shifts' = {}
  /\ constraints' = {}
  /\ t_idx' = 0
  /\ calls' = {}
  /\ status' = ""
  /\ solution' = <<>>
  /\ valuesRead' = FALSE
  /\ message' = ""
  /\ report' = <<>>
  /\ exc' = ""
  /\ UNCHANGED inputs

\* one run of the script
Next ==
  \/ RemoveAbsent \/ ConvertToNumbers \/ CreateShifts
  \/ Constraint1 \/ Constraint2 \/ Constraint3
  \/ FixedMeetings \/ FixedMeetingsRaise \/ Objective
  \/ SolveInfeasible \/ SolveFound \/ SolveUnknown
  \/ ReportInfeasible \/ StartRender \/ RenderBlock \/ RenderRaise

Spec == Init /\ [][Next]_vars

\* a run of the script followed by a second run on the same inputs
NextRerun ==
  \/ RemoveAbsent \/ ConvertToNumbers \/ CreateShifts
  \/ Constraint1 \/ Constraint2 \/ Constraint3
  \/ FixedMeetings \/ FixedMeetingsRaise \/ Objective
  \/ SolveInfeasible \/ SolveFound \/ SolveUnknown
  \/ ReportInfeasible \/ StartRender \/ RenderBlock \/ RenderRaise
  \/ Rerun

SpecRerun == Init /\ [][NextRerun]_vars

\* ------------------------------------------------------------- properties
\* What the properties speak about, read from the inputs and the output.
Accepted == pc = "done" /\ HasSolution
RoleNames == Range(Keys(roles_employees))
Blocks == 0..(n_blocks - 1)
RoleIndices == 0..(Len(roles_employees) - 1)
IndexOfRole(name) == CHOOSE r \in RoleIndices : roles_employees[r + 1].role = name
\* members of the role at enumeration index r that are not absent
Filtered(r) == {m \in Range(roles_employees[r + 1].members) : m \notin absent_colleagues}
\* attendees the report of block t lists for the role at index r / named nm
Attendees(t, r) ==
  UNION {Range(report[t + 1].meetings[j].members) :
           j \in {i \in DOMAIN report[t + 1].meetings : report[t + 1].meetings[i].r = r}}
AttendeesOf(t, nm) ==
  UNION {Range(report[t + 1].meetings[j].members) :
           j \in {i \in DOMAIN report[t + 1].meetings : report[t + 1].meetings[i].role = nm}}

\* C1: in every accepted schedule, every role name requested for block t has
\* all its non-absent members attending it in block t, and Role 9 has no
\* attendee in a block where it is not requested.
C1_FixedMeetingLaw ==
  Accepted =>
    \A t \in Blocks :
      /\ \A nm \in fixed_meetings[t + 1] :
           Filtered(IndexOfRole(nm)) \subseteq AttendeesOf(t, nm)
      /\ (Role("9") \in RoleNames /\ Role("9") \notin fixed_meetings[t + 1])
           => AttendeesOf(t, Role("9")) = {}

\* C2: in every accepted schedule, a role (Role 9 included) with at most one
\* non-absent member has no attendee in any block.
C2_Exclusion ==
  Accepted =>
    \A r \in RoleIndices :
      Cardinality(Filtered(r)) <= 1 => \A t \in Blocks : Attendees(t, r) = {}

\* C3: every add_constraint call made for a roster role (a requested role, or
\* Role 9 as the exempt role) constrains the role's enumeration index in the
\* roster mapping.
C3_RoleIdentity ==
  \A q \in calls : q.name \in RoleNames => q.r - 1 = IndexOfRole(q.name)

\* C4: a block is rendered only on a FEASIBLE or OPTIMAL verdict; on
\* INFEASIBLE and on UNKNOWN the run reads no variable value, renders
\* nothing, does not crash and ends with the no-solution message.
C4_RenderGated ==
  /\ report # <<>> => HasSolution
  /\ status \in {"INFEASIBLE", "UNKNOWN"} =>
       /\ ~valuesRead
       /\ exc = ""
       /\ Terminal => message # ""

\* some block requests a role all of whose members are absent
ScenarioD ==
  \E t \in Blocks : \E nm \in fixed_meetings[t + 1] :
    /\ roles_employees[IndexOfRole(nm) + 1].members # <<>>
    /\ Filtered(IndexOfRole(nm)) = {}

\* C5: when a fixed meeting requests a role whose members are all absent, the
\* run (the solver giving a verdict) ends with the infeasibility message, not
\* with a rendered schedule and not with a crash.
C5_ScenarioD ==
  (ScenarioD /\ Terminal /\ status \in {"INFEASIBLE", "FEASIBLE", "OPTIMAL"})
    => (message # "" /\ report = <<>> /\ exc = "")

\* C6: in every accepted schedule, every role other than the exempt one
\* (index 8) with at least two non-absent members has an attendee in at
\* least one block.
C6_Coverage ==
  Accepted =>
    \A r \in RoleIndices :
      (r # 8 /\ Cardinality(Filtered(r)) >= 2)
        => \E t \in Blocks : Attendees(t, r) # {}

\* a covered role meets in one block and not in another
C6_Witness ==
  /\ Accepted
  /\ \E r \in RoleIndices :
       /\ r # 8 /\ Cardinality(Filtered(r)) >= 2
       /\ \E t \in Blocks : Attendees(t, r) # {}
       /\ \E t \in Blocks : Attendees(t, r) = {}

\* C7: in every accepted schedule, every member is listed under at most one
\* role in each block, also when the member belongs to several roles that
\* are requested as fixed meetings.
C7_NoDoubleBooking ==
  Accepted =>
    \A t \in Blocks : \A m \in EmployeesOf(roles_employees) :
      Cardinality({j \in DOMAIN report[t + 1].meetings :
                     m \in Range(report[t + 1].meetings[j].members)}) <= 1

\* a member of two roles, each requested in some block, attends both
C7_Witness ==
  /\ Accepted
  /\ \E r1, r2 \in RoleIndices : \E m \in Filtered(r1) \cap Filtered(r2) :
       /\ r1 # r2
       /\ \E t1, t2 \in Blocks :
            /\ roles_employees[r1 + 1].role \in fixed_meetings[t1 + 1]
            /\ roles_employees[r2 + 1].role \in fixed_meetings[t2 + 1]
            /\ m \in Attendees(t1, r1)
            /\ m \in Attendees(t2, r2)

\* C8: in every accepted schedule, the number of attendees of a role in a
\* block is 0, max(2, n - 1) or n, with n the number of its non-absent
\* members; a role with n = 0 is accepted and never meets.
C8_Cohesion ==
  Accepted =>
    \A r \in RoleIndices : \A t \in Blocks :
      LET n == Cardinality(Filtered(r))
          k == Cardinality(Attendees(t, r))
      IN  k = 0 \/ k = n \/ k = (IF n - 1 > 2 THEN n - 1 ELSE 2)

\* a role of three meets with two of them, next to a role without members
C8_Witness ==
  /\ Accepted
  /\ \E r \in RoleIndices : \E t \in Blocks :
       Cardinality(Filtered(r)) = 3 /\ Cardinality(Attendees(t, r)) = 2
  /\ \E r \in RoleIndices : Filtered(r) = {}

\* C9: a roster of fewer than nine roles, 2 blocks, nobody absent and no
\* fixed meeting: the run (the solver giving a verdict) produces a schedule
\* in which a 1-member role never meets and a 2-member role meets in some
\* block with both members.
C9_ScenarioA ==
  (/\ Len(roles_employees) < 9
   /\ n_blocks = 2
   /\ absent_colleagues = {}
   /\ \A t \in Blocks : fixed_meetings[t + 1] = {}
   /\ Terminal
   /\ status # "UNKNOWN")
    => /\ Accepted
       /\ \A r \in RoleIndices :
            /\ Cardinality(Filtered(r)) = 1 => \A t \in Blocks : Attendees(t, r) = {}
            /\ Cardinality(Filtered(r)) = 2 => \E t \in Blocks : Attendees(t, r) = Filtered(r)

\* C10: a second run of the builder on the same inputs creates the same
\* shift variables (keyed by block, role and member id) and the same
\* constraints as the first.
C10_Idempotence ==
  (run = 2 /\ pc = "solve") => (shifts = prevShifts /\ constraints = prevConstraints)
====
